---- MODULE Spec2Model ----
(***************************************************************************)
(* Model of the linkdoc crawl engine (src/src/crawling.rs) and of the      *)
(* fetch-with-timeout race (src/src/fetching.rs).                          *)
(*                                                                         *)
(* Threads: THREADS workers running crawl_worker_thread, the caller        *)
(* pulling from Crawler::next, and one request thread per url_status call. *)
(* Every step between two accesses to shared data (a channel operation, a  *)
(* mutex critical section) is one action; the one nested critical section  *)
(* (crawling.rs:67-72) is two, so that the order of acquisition shows.     *)
(***************************************************************************)
EXTENDS Integers, Sequences, FiniteSets, TLC

(***************************************************************************)
(* Bounds of the model.  The program runs 10 workers (crawling.rs:43); the *)
(* model runs THREADS of them.  The site has the pages 0..MaxPage, linked  *)
(* in a chain from the front page, and one page no other page links to.    *)
(***************************************************************************)
THREADS == 2
MaxPage == 0

Workers == 1..THREADS

\* the thread that called crawl and pulls from the Crawler
MainThread == 0

(***************************************************************************)
(* Raw link strings and URLs.  A raw string is relative ("/3"), absolute   *)
(* ("http://host/3") or not a URL at all ("::bad::").  A Url is what       *)
(* Url::parse yields: always absolute.                                     *)
(***************************************************************************)
Domain == "example.test"
OtherDomain == "other.test"

Rel(p) == [kind |-> "rel", host |-> "", path |-> p]
Abs(h, p) == [kind |-> "abs", host |-> h, path |-> p]
Bad == [kind |-> "bad", host |-> "", path |-> 0]
NoString == [kind |-> "none", host |-> "", path |-> 0]

StartUrl == Abs(Domain, 0)
OffSite == Abs(OtherDomain, 0)
OffSiteLink == Abs(OtherDomain, 1)

\* A page of the domain that no page reachable from StartUrl links to; a
\* crawl started there finds a link to the page itself, written as a
\* relative path, and a string that is no URL.
SidePage == MaxPage + 1
SideUrl == Abs(Domain, SidePage)

Strings ==
    {StartUrl, OffSite, OffSiteLink, Bad, SideUrl, Rel(SidePage)}
        \cup {Rel(p) : p \in 1..MaxPage}

Err == [kind |-> "err", host |-> "", path |-> 0]

\* fetching.rs build_url: parse "http://<domain>" and join the path onto it.
\* A relative path lands on the domain, an absolute URL keeps its own host,
\* anything else is a ParseError.
build_url(domain, path) ==
    CASE path.kind = "rel" -> Abs(domain, path.path)
      [] path.kind = "abs" -> path
      [] OTHER -> Err

(***************************************************************************)
(* The site: what the external collaborators return.  get_urls of the body *)
(* served at a URL; every page has links, also the off-site one and pages  *)
(* answered with an error status.                                          *)
(***************************************************************************)
get_urls(url) ==
    IF url.host = Domain
    THEN IF url.path < MaxPage
         THEN <<Rel(url.path + 1)>>
         ELSE IF url.path = MaxPage
         THEN <<OffSite, OffSite, Bad>>
         ELSE <<Rel(SidePage), Bad>>
    ELSE <<OffSiteLink>>

\* What reqwest::get can come back with: a status code or a transport error.
Responses == {200, 404, -1}
is_success(status) == status >= 200 /\ status < 300

(***************************************************************************)
(* UrlState (fetching.rs:12-18).  old is the origin string, url the        *)
(* resolved Url (the raw string for Malformed), status is 0 unless         *)
(* BadStatus.                                                              *)
(***************************************************************************)
Accessible(old, url) == [tag |-> "Accessible", old |-> old, url |-> url, status |-> 0]
BadStatus(old, url, s) == [tag |-> "BadStatus", old |-> old, url |-> url, status |-> s]
ConnectionFailed(old, url) == [tag |-> "ConnectionFailed", old |-> old, url |-> url, status |-> 0]
TimedOut(old, url) == [tag |-> "TimedOut", old |-> old, url |-> url, status |-> 0]
Malformed(old, raw) == [tag |-> "Malformed", old |-> old, url |-> raw, status |-> 0]
NoState == [tag |-> "none", old |-> NoString, url |-> NoString, status |-> 0]

\* RequestResult without the is_success test: every status counts as success.
RequestResult_AnyStatus(old, url, response) ==
    IF response = -1 THEN ConnectionFailed(old, url) ELSE Accessible(old, url)

\* fetching.rs:63-73, the message the request thread builds from the response.
RequestResult(old, url, response) ==
    IF response = -1 THEN ConnectionFailed(old, url)
    ELSE IF is_success(response) THEN Accessible(old, url)
    ELSE BadStatus(old, url, response)

\* SendResult on a channel that outlives the call: a late result is queued.
SendResult_Shared(channel, receiverAlive, msg) == Append(channel, msg)

\* Sender::send of the request thread (fetching.rs:63): the message is queued
\* while the receiver of this call's channel is alive; once url_status has
\* returned the receiver is gone, send returns Err and `let _ =` drops it.
SendResult(channel, receiverAlive, msg) ==
    IF receiverAlive THEN Append(channel, msg) ELSE channel

\* contains answering for a set read before the lock was taken (stale, empty).
contains_Stale(visited_val, s) == s \in {}

\* crawling.rs:68, visited_val.contains(&current)
contains(visited_val, s) == s \in visited_val

\* the already-visited path taking two off the counter
DropVisited_Twice(count) == count - 2

\* the already-visited path without its decrement
DropVisited_NoDecrement(count) == count

\* crawling.rs:69-71, the counter after the already-visited path
DropVisited(count) == count - 1

\* insert that leaves the set as it was
insert_Missing(visited_val, s) == visited_val

\* crawling.rs:74, visited_val.insert(current.to_owned())
insert(visited_val, s) == visited_val \cup {s}

\* a `visited` guard that outlives its block
unlock_visited_Kept(holders, t) == holders

\* crawling.rs:76, the `visited` guard goes out of scope at the end of the
\* block (or at `continue`): thread t no longer holds the mutex.
unlock_visited(holders, t) == holders \ {t}

\* an `active_count` guard that outlives its block
unlock_count_Kept(holders, t) == holders

\* crawling.rs:63, 71-72, 96, 111 and 30, 36: the `active_count` guard goes
\* out of scope.
unlock_count(holders, t) == holders \ {t}

\* a test that also waits at counter 0
in_flight_Always(count) == count >= 0

\* crawling.rs:105, the worker's test after a failed claim: keep looping?
in_flight(count) == count > 0

\* a test that ends the stream while one URL is still counted
none_left_OffByOne(count) == count <= 1

\* crawling.rs:28, the test of Crawler::next on an empty outcome channel
none_left(count) == count = 0

\* a send that loses the message
send_Dropped(chan, msg) == chan

\* Sender::send on an unbounded channel (crawling.rs:86, 98)
send(chan, msg) == Append(chan, msg)

\* ShouldExpand without the domain test
ShouldExpand_AnyDomain(domain, st) == st.tag = "Accessible"

\* crawling.rs:82-83, the test that decides whether a page is expanded.
ShouldExpand(domain, st) ==
    st.tag = "Accessible" /\ st.url.host = domain

VARIABLES
    visit,         \* the (visit_s, visit_r) channel of pending strings
    visited,       \* the visited set
    active_count,  \* the in-flight counter
    visited_lock,  \* the threads holding the mutex of `visited` (none or one)
    count_lock,    \* the threads holding the mutex of `active_count`
    url_states,    \* the (url_state_s, url_state_r) channel of outcomes
    pc,            \* where each worker is in crawl_worker_thread
    current,       \* the string each worker has claimed
    state,         \* the UrlState each worker got from url_status
    new_urls,      \* what is left of `for new_url in fetch_all_urls(..)`
    request,       \* the request thread of each worker's url_status call
    channel,       \* the (s, r) channel of each worker's url_status call
    response,      \* what the GET of that request thread came back with
    abandoned,     \* request threads still running after their call timed out
    cpc,           \* where the caller is in Crawler::next
    returned,      \* the outcomes Crawler::next has returned, in order
    ended,         \* history: Crawler::next has returned None
    enqueued,      \* history: every string ever sent on visit
    claims,        \* history: entries carrying each string taken off visit
    fetches,       \* history: url_status calls made for each string
    requests       \* history: GETs issued by url_status for each string

vars == <<visit, visited, active_count, visited_lock, count_lock, url_states,
          pc, current, state, new_urls, request, channel, response, abandoned,
          cpc, returned, ended, enqueued, claims, fetches, requests>>

locks == <<visited_lock, count_lock>>
shared == <<visit, visited, active_count, url_states, locks>>
consumer == <<cpc, returned, ended>>
history == <<enqueued, claims, fetches, requests>>
fetchvars == <<request, channel, response, abandoned>>

\* crawl (crawling.rs:118-152): counter 0, nothing visited, the seed queued,
\* THREADS workers spawned and the Crawler handed to the caller.
crawl(start_url) ==
    /\ visit = <<start_url>>
    /\ visited = {}
    /\ active_count = 0
    /\ visited_lock = {}
    /\ count_lock = {}
    /\ url_states = <<>>
    /\ pc = [w \in Workers |-> "Idle"]
    /\ current = [w \in Workers |-> NoString]
    /\ state = [w \in Workers |-> NoState]
    /\ new_urls = [w \in Workers |-> <<>>]
    /\ request = [w \in Workers |-> "none"]
    /\ channel = [w \in Workers |-> <<>>]
    /\ response = [w \in Workers |-> 0]
    /\ abandoned = [w \in Workers |-> {}]
    /\ cpc = "TryRecv"
    /\ returned = <<>>
    /\ ended = FALSE
    /\ enqueued = {start_url}
    /\ claims = [s \in Strings |-> 0]
    /\ fetches = [s \in Strings |-> 0]
    /\ requests = [s \in Strings |-> 0]

\* crawl(domain, start_url) with the front page as the seed
Init == crawl(StartUrl)

\* crawl(domain, start_url) with the unlinked page as the seed
SideInit == crawl(SideUrl)

\* A thread that panicked inside an active_count critical section (a failed
\* assert) leaves the mutex poisoned: every later lock().unwrap() panics.
Poisoned == \E w \in Workers : pc[w] = "AssertFailed"

\* A thread that panicked at crawling.rs:70 did so holding the `visited`
\* guard, which poisons that mutex as well.
VisitedPoisoned == \E w \in Workers : pc[w] = "PanickedInVisited"

(***************************************************************************)
(* crawl_worker_thread                                                     *)
(***************************************************************************)

\* crawling.rs:57, url_r.try_recv()
TryClaim(w) ==
    /\ pc[w] = "Idle"
    /\ IF visit # <<>>
       THEN /\ current' = [current EXCEPT ![w] = Head(visit)]
            /\ visit' = Tail(visit)
            /\ claims' = [claims EXCEPT ![Head(visit)] = @ + 1]
            /\ pc' = [pc EXCEPT ![w] = "Claimed"]
       ELSE /\ pc' = [pc EXCEPT ![w] = "ClaimFailed"]
            /\ UNCHANGED <<current, visit, claims>>
    /\ UNCHANGED <<visited, active_count, locks, url_states, state, new_urls,
                   fetchvars, consumer, enqueued, fetches, requests>>

\* crawling.rs:59-63, increment under the lock and assert <= THREADS
MarkInFlight(w) ==
    /\ pc[w] = "Claimed"
    /\ count_lock = {}
    /\ IF Poisoned
       THEN /\ pc' = [pc EXCEPT ![w] = "Panicked"]
            /\ UNCHANGED <<active_count, count_lock>>
       ELSE /\ active_count' = active_count + 1
            /\ count_lock' = unlock_count(count_lock \cup {w}, w)
            /\ pc' = [pc EXCEPT ![w] =
                        IF active_count' <= THREADS THEN "Dedupe" ELSE "AssertFailed"]
    /\ UNCHANGED <<visit, visited, visited_lock, url_states, current, state,
                   new_urls, fetchvars, consumer, history>>

\* crawling.rs:65-76, check and insert in one critical section of `visited`.
\* On the already-visited path the worker keeps the guard and goes on to
\* lock the counter (AlreadyVisited).
Dedupe(w) ==
    /\ pc[w] = "Dedupe"
    /\ visited_lock = {}
    /\ IF VisitedPoisoned
       THEN /\ pc' = [pc EXCEPT ![w] = "Panicked"]
            /\ UNCHANGED <<visited, visited_lock>>
       ELSE IF contains(visited, current[w])
       THEN /\ visited_lock' = visited_lock \cup {w}
            /\ pc' = [pc EXCEPT ![w] = "AlreadyVisited"]
            /\ UNCHANGED visited
       ELSE /\ visited' = insert(visited, current[w])
            /\ visited_lock' = unlock_visited(visited_lock \cup {w}, w)
            /\ pc' = [pc EXCEPT ![w] = "Fetching"]
    /\ UNCHANGED <<visit, active_count, count_lock, url_states, current, state,
                   new_urls, fetchvars, consumer, history>>

\* crawling.rs:69-72, inside the `visited` critical section: lock the
\* counter, decrement it and `continue`, which drops both guards.
AlreadyVisited(w) ==
    /\ pc[w] = "AlreadyVisited"
    /\ count_lock = {}
    /\ IF Poisoned
       THEN /\ pc' = [pc EXCEPT ![w] = "PanickedInVisited"]
            /\ UNCHANGED <<active_count, count_lock, current>>
       ELSE /\ active_count' = DropVisited(active_count)
            /\ count_lock' = unlock_count(count_lock \cup {w}, w)
            /\ pc' = [pc EXCEPT ![w] = "Idle"]
            /\ current' = [current EXCEPT ![w] = NoString]
    /\ visited_lock' = unlock_visited(visited_lock, w)
    /\ UNCHANGED <<visit, visited, url_states, state, new_urls, fetchvars,
                   consumer, history>>

\* Where the worker goes once url_status has returned st (crawling.rs:82-89).
AfterStatus(st) == IF ShouldExpand(Domain, st) THEN "Expanding" ELSE "Finishing"

\* crawling.rs:79 -> fetching.rs:52-74, url_status up to the select!: resolve
\* the string; Malformed at once, or a fresh channel and a request thread.
\* The worker has only `current` to pass, so it is both old_path and path.
UrlStatusCall(w) ==
    /\ pc[w] = "Fetching"
    /\ fetches' = [fetches EXCEPT ![current[w]] = @ + 1]
    /\ LET url == build_url(Domain, current[w]) IN
       IF url = Err
       THEN /\ state' = [state EXCEPT ![w] = Malformed(current[w], current[w])]
            /\ pc' = [pc EXCEPT ![w] = AfterStatus(state'[w])]
            /\ UNCHANGED <<request, channel, requests>>
       ELSE /\ channel' = [channel EXCEPT ![w] = <<>>]
            /\ request' = [request EXCEPT ![w] = "running"]
            /\ requests' = [requests EXCEPT ![current[w]] = @ + 1]
            /\ pc' = [pc EXCEPT ![w] = "Select"]
            /\ UNCHANGED state
    /\ response' = [response EXCEPT ![w] = 0]
    /\ UNCHANGED <<shared, current, new_urls, abandoned, consumer, enqueued,
                   claims>>

\* fetching.rs:60-74, the request thread: the GET comes back and the result
\* is sent on the call's channel.
RequestThread(w, r) ==
    /\ request[w] = "running"
    /\ LET url == build_url(Domain, current[w]) IN
       channel' = [channel EXCEPT ![w] =
                     SendResult(@, TRUE, RequestResult(current[w], url, r))]
    /\ response' = [response EXCEPT ![w] = r]
    /\ request' = [request EXCEPT ![w] = "none"]
    /\ UNCHANGED <<shared, pc, current, state, new_urls, abandoned, consumer,
                   history>>

\* fetching.rs:78, recv(r) -> msg => msg.unwrap()
SelectRecv(w) ==
    /\ pc[w] = "Select"
    /\ channel[w] # <<>>
    /\ state' = [state EXCEPT ![w] = Head(channel[w])]
    /\ channel' = [channel EXCEPT ![w] = <<>>]
    /\ pc' = [pc EXCEPT ![w] = AfterStatus(state'[w])]
    /\ UNCHANGED <<shared, current, new_urls, request, response, abandoned,
                   consumer, history>>

\* fetching.rs:79, default(TIMEOUT_SECS): nothing on the channel when the
\* deadline fires.  The request thread is left running.
SelectTimeout(w) ==
    /\ pc[w] = "Select"
    /\ channel[w] = <<>>
    /\ state' = [state EXCEPT ![w] =
                   TimedOut(current[w], build_url(Domain, current[w]))]
    /\ pc' = [pc EXCEPT ![w] = AfterStatus(state'[w])]
    /\ request' = [request EXCEPT ![w] = "none"]
    /\ abandoned' = [abandoned EXCEPT ![w] =
                       IF request[w] = "running" THEN @ \cup {current[w]} ELSE @]
    /\ UNCHANGED <<shared, current, new_urls, channel, response, consumer,
                   history>>

\* fetching.rs:60-74 after the call timed out: the GET of an abandoned request
\* thread comes back; its send finds the receiver dropped.
AbandonedRequest(w, s, r) ==
    /\ s \in abandoned[w]
    /\ abandoned' = [abandoned EXCEPT ![w] = @ \ {s}]
    /\ channel' = [channel EXCEPT ![w] =
                     SendResult(@, FALSE, RequestResult(s, build_url(Domain, s), r))]
    /\ UNCHANGED <<shared, pc, current, state, new_urls, request, response,
                   consumer, history>>

\* crawling.rs:85 -> fetching.rs:86-104, fetch_all_urls: a second GET.  A
\* failed GET is `expect`ed and panics the worker; an unreadable body is
\* read as the empty page.
FetchAllUrls(w) ==
    /\ pc[w] = "Expanding"
    /\ \E get \in {"ok", "text_err", "get_err"} :
         IF get = "get_err"
         THEN /\ pc' = [pc EXCEPT ![w] = "Panicked"]
              /\ UNCHANGED new_urls
         ELSE LET found == IF get = "ok" THEN get_urls(state[w].url) ELSE <<>> IN
              /\ new_urls' = [new_urls EXCEPT ![w] = found]
              /\ pc' = [pc EXCEPT ![w] = IF found = <<>> THEN "Finishing" ELSE "Sending"]
    /\ UNCHANGED <<shared, current, state, fetchvars, consumer, history>>

\* crawling.rs:85-87, one url_s.send(new_url) of the for loop
SendNewUrl(w) ==
    /\ pc[w] = "Sending"
    /\ visit' = send(visit, Head(new_urls[w]))
    /\ enqueued' = enqueued \cup {Head(new_urls[w])}
    /\ new_urls' = [new_urls EXCEPT ![w] = Tail(@)]
    /\ pc' = [pc EXCEPT ![w] = IF new_urls'[w] = <<>> THEN "Finishing" ELSE "Sending"]
    /\ UNCHANGED <<visited, active_count, locks, url_states, current, state,
                   fetchvars, consumer, claims, fetches, requests>>

\* crawling.rs:91-96, decrement under the lock and assert >= 0
MarkDone(w) ==
    /\ pc[w] = "Finishing"
    /\ count_lock = {}
    /\ IF Poisoned
       THEN /\ pc' = [pc EXCEPT ![w] = "Panicked"]
            /\ UNCHANGED <<active_count, count_lock>>
       ELSE /\ active_count' = active_count - 1
            /\ count_lock' = unlock_count(count_lock \cup {w}, w)
            /\ pc' = [pc EXCEPT ![w] =
                        IF active_count' >= 0 THEN "Publishing" ELSE "AssertFailed"]
    /\ UNCHANGED <<visit, visited, visited_lock, url_states, current, state,
                   new_urls, fetchvars, consumer, history>>

\* crawling.rs:98, url_states.send(state), then back to the top of the loop
Publish(w) ==
    /\ pc[w] = "Publishing"
    /\ url_states' = send(url_states, state[w])
    /\ pc' = [pc EXCEPT ![w] = "Idle"]
    /\ current' = [current EXCEPT ![w] = NoString]
    /\ state' = [state EXCEPT ![w] = NoState]
    /\ response' = [response EXCEPT ![w] = 0]
    /\ UNCHANGED <<visit, visited, active_count, locks, new_urls, request,
                   channel, abandoned, consumer, history>>

\* crawling.rs:100-111, the Err(_) arm: read the counter, retry or break
ClaimFailed(w) ==
    /\ pc[w] = "ClaimFailed"
    /\ count_lock = {}
    /\ pc' = [pc EXCEPT ![w] =
                IF Poisoned THEN "Panicked"
                ELSE IF in_flight(active_count) THEN "Idle" ELSE "Exited"]
    /\ count_lock' = IF Poisoned THEN count_lock
                     ELSE unlock_count(count_lock \cup {w}, w)
    /\ UNCHANGED <<visit, visited, active_count, visited_lock, url_states,
                   current, state, new_urls, fetchvars, consumer, history>>

(***************************************************************************)
(* Crawler::next (crawling.rs:18-40).  The caller keeps pulling; after a   *)
(* None it may call next again.                                            *)
(***************************************************************************)

\* crawling.rs:21-24, try_recv on the outcome channel
NextTryRecv ==
    /\ cpc = "TryRecv"
    /\ IF url_states # <<>>
       THEN /\ returned' = Append(returned, Head(url_states))
            /\ url_states' = Tail(url_states)
            /\ UNCHANGED cpc
       ELSE /\ cpc' = "CheckCount"
            /\ UNCHANGED <<returned, url_states>>
    /\ UNCHANGED <<visit, visited, active_count, locks, pc, current, state,
                   new_urls, fetchvars, ended, history>>

\* crawling.rs:26-37, the Err(_) arm: None if the counter is 0, else snooze
NextCheckCount ==
    /\ cpc = "CheckCount"
    /\ count_lock = {}
    /\ cpc' = IF Poisoned THEN "Panicked"
              ELSE IF none_left(active_count) THEN "Ended" ELSE "TryRecv"
    /\ ended' = (ended \/ cpc' = "Ended")
    /\ count_lock' = IF Poisoned THEN count_lock
                     ELSE unlock_count(count_lock \cup {MainThread}, MainThread)
    /\ UNCHANGED <<visit, visited, active_count, visited_lock, url_states, pc,
                   current, state, new_urls, fetchvars, returned, history>>

\* the caller calls next() again on a Crawler that has returned None
NextAgain ==
    /\ cpc = "Ended"
    /\ cpc' = "TryRecv"
    /\ UNCHANGED <<shared, pc, current, state, new_urls, fetchvars, returned,
                   ended, history>>

Worker(w) ==
    \/ TryClaim(w)
    \/ MarkInFlight(w)
    \/ Dedupe(w)
    \/ AlreadyVisited(w)
    \/ UrlStatusCall(w)
    \/ SelectRecv(w)
    \/ SelectTimeout(w)
    \/ FetchAllUrls(w)
    \/ SendNewUrl(w)
    \/ MarkDone(w)
    \/ Publish(w)
    \/ ClaimFailed(w)

Requests(w) ==
    \/ \E r \in Responses : RequestThread(w, r)
    \/ \E s \in Strings, r \in Responses : AbandonedRequest(w, s, r)

Caller == NextTryRecv \/ NextCheckCount \/ NextAgain

Next ==
    \/ \E w \in Workers : TryClaim(w)
    \/ \E w \in Workers : MarkInFlight(w)
    \/ \E w \in Workers : Dedupe(w)
    \/ \E w \in Workers : AlreadyVisited(w)
    \/ \E w \in Workers : UrlStatusCall(w)
    \/ \E w \in Workers, r \in Responses : RequestThread(w, r)
    \/ \E w \in Workers : SelectRecv(w)
    \/ \E w \in Workers : SelectTimeout(w)
    \/ \E w \in Workers, s \in Strings, r \in Responses : AbandonedRequest(w, s, r)
    \/ \E w \in Workers : FetchAllUrls(w)
    \/ \E w \in Workers : SendNewUrl(w)
    \/ \E w \in Workers : MarkDone(w)
    \/ \E w \in Workers : Publish(w)
    \/ \E w \in Workers : ClaimFailed(w)
    \/ NextTryRecv
    \/ NextCheckCount
    \/ NextAgain

Spec == Init /\ [][Next]_vars

SideSpec == SideInit /\ [][Next]_vars

\* Scheduling: every live thread keeps being scheduled (OS threads), the
\* caller keeps pulling.  What the network answers is not constrained.
FairSpec ==
    /\ Spec
    /\ \A w \in Workers : WF_vars(Worker(w))
    /\ \A w \in Workers : WF_vars(Requests(w))
    /\ WF_vars(Caller)

(***************************************************************************)
(* Properties                                                              *)
(***************************************************************************)

RECURSIVE CountOld(_, _)
\* how many outcomes in the sequence seq carry the origin string s
CountOld(seq, s) ==
    IF seq = <<>> THEN 0
    ELSE (IF Head(seq).old = s THEN 1 ELSE 0) + CountOld(Tail(seq), s)

\* outcomes sent on the outcome channel so far, for string s
Published(s) == CountOld(returned, s) + CountOld(url_states, s)

\* workers that hold a claimed string
Holding == {w \in Workers : pc[w] \notin {"Idle", "ClaimFailed", "Exited"}}

\* C1: when the stream has returned None, every string ever put on the
\* pending queue has been returned exactly once as an outcome.
C1_OutcomeCompleteness ==
    cpc = "Ended" => \A s \in enqueued : CountOld(returned, s) = 1

\* C2: under fair scheduling every worker eventually reaches Exited and the
\* caller eventually gets None from next.
C2_Termination ==
    <>(cpc = "Ended" /\ \A w \in Workers : pc[w] = "Exited")

\* C3: next returns None only when the pending queue is empty, the counter is
\* 0, no worker holds a claimed string and every published outcome has been
\* returned.
C3_StreamEndExact ==
    [][(cpc = "CheckCount" /\ cpc' = "Ended") =>
         /\ visit = <<>>
         /\ active_count = 0
         /\ Holding = {}
         /\ url_states = <<>>]_vars

\* Workers that have taken an entry carrying s off the queue and have not yet
\* been through the visited-set critical section.
BeforeDedupe(s) ==
    {w \in Workers : pc[w] \in {"Claimed", "Dedupe"} /\ current[w] = s}

\* Workers that inserted s and are about to call url_status on it.
AboutToFetch(s) == {w \in Workers : pc[w] = "Fetching" /\ current[w] = s}

\* C4: of the workers that claimed entries carrying one string and went
\* through the visited-set critical section, exactly one inserted it and
\* fetches; the string is fetched at most once, has at most one outcome
\* published, and the visited set only grows.
C4_Dedup ==
    /\ [](\A s \in Strings :
            /\ fetches[s] + Cardinality(AboutToFetch(s)) <= 1
            /\ Published(s) <= 1
            /\ claims[s] > Cardinality(BeforeDedupe(s)) =>
                 /\ s \in visited
                 /\ fetches[s] + Cardinality(AboutToFetch(s)) = 1)
    /\ [][visited \subseteq visited']_vars

\* two entries carrying one string were claimed, both claimants are through
\* the critical section, and the string was fetched
C4_Witness ==
    \E s \in Strings :
        /\ claims[s] >= 2
        /\ BeforeDedupe(s) = {}
        /\ fetches[s] = 1

\* C5: once a worker has exited, the pending queue is empty and no worker
\* holds a claimed string, so nothing can be enqueued or claimed any more.
C5_ExitSafe ==
    (\E w \in Workers : pc[w] = "Exited") => (visit = <<>> /\ Holding = {})

\* C6: the in-flight counter stays within 0..THREADS and neither assert of
\* the worker loop fails.
C6_CounterBounds ==
    /\ active_count >= 0
    /\ active_count <= THREADS
    /\ \A w \in Workers : pc[w] # "AssertFailed"

\* every worker is counted and one of them is about to take the
\* already-visited path
C6_Witness ==
    /\ active_count = THREADS
    /\ \E w \in Workers : pc[w] = "Dedupe" /\ current[w] \in visited

\* C7: a worker fetches links and enqueues only while it holds an Accessible
\* outcome whose URL is on the target domain; the link of the off-site page
\* is never enqueued.
C7_ExpansionInDomain ==
    /\ [](/\ \A w \in Workers : pc[w] \in {"Expanding", "Sending"} =>
                (state[w].tag = "Accessible" /\ state[w].url.host = Domain)
          /\ OffSiteLink \notin enqueued)
    /\ [][visit' # visit /\ Len(visit') >= Len(visit) =>
            \E w \in Workers :
                /\ pc[w] = "Sending"
                /\ state[w].tag = "Accessible"
                /\ state[w].url.host = Domain
                /\ visit' = Append(visit, Head(new_urls[w]))]_vars

\* the off-site page was Accessible, its outcome has been returned, and all
\* work is over with nothing of that page enqueued
C7_Witness ==
    /\ \E i \in 1..Len(returned) :
          returned[i].tag = "Accessible" /\ returned[i].url.host = OtherDomain
    /\ Holding = {}
    /\ visit = <<>>

\* C8: no failure while handling a URL takes a worker down; it goes on to
\* decrement the counter and publish.
C8_FailuresLocal ==
    \A w \in Workers : pc[w] # "Panicked"

\* C9: when the deadline fires with nothing delivered the call returns
\* TimedOut; what an abandoned request thread delivers later changes neither
\* a channel, nor an outcome, nor any worker's position.
C9_TimeoutBoundary ==
    /\ [][\A w \in Workers :
            (pc[w] = "Select" /\ channel[w] = <<>> /\ pc'[w] # "Select") =>
                state'[w] = TimedOut(current[w], build_url(Domain, current[w]))]_vars
    /\ [][abandoned' # abandoned /\ pc' = pc =>
            UNCHANGED <<channel, state, pc, shared, returned>>]_vars
    /\ [](\A w \in Workers : \A i \in 1..Len(channel[w]) :
            pc[w] = "Select" /\ channel[w][i].old = current[w])

\* a call has timed out, its request thread has since finished, and the
\* worker still holds TimedOut
C9_Witness ==
    \E w \in Workers :
        /\ state[w].tag = "TimedOut"
        /\ state[w].old \notin abandoned[w]
        /\ pc[w] = "Finishing"

\* C10: once url_status has returned, the outcome is the one its case
\* prescribes: Malformed and no GET when resolution fails; otherwise one GET
\* and Accessible / BadStatus with the status / ConnectionFailed according
\* to the response received before the deadline, TimedOut when none was.
AfterUrlStatus == {"Expanding", "Sending", "Finishing", "Publishing"}

C10_UrlStatusOutcome ==
    \A w \in Workers : pc[w] \in AfterUrlStatus =>
        LET s == current[w]
            url == build_url(Domain, s)
        IN  IF s.kind \notin {"rel", "abs"}
            THEN /\ state[w] = Malformed(s, s)
                 /\ requests[s] = 0
            ELSE /\ requests[s] = 1
                 /\ response[w] = 0 => state[w] = TimedOut(s, url)
                 /\ response[w] = -1 => state[w] = ConnectionFailed(s, url)
                 /\ response[w] >= 200 /\ response[w] < 300 => state[w] = Accessible(s, url)
                 /\ response[w] >= 300 => state[w] = BadStatus(s, url, response[w])

\* a Malformed outcome and a BadStatus carrying 404 have been returned
C10_Witness ==
    /\ \E i \in 1..Len(returned) : returned[i] = Malformed(Bad, Bad)
    /\ \E i \in 1..Len(returned) :
          returned[i].tag = "BadStatus" /\ returned[i].status = 404

\* C11: once next has returned None, no later call returns an outcome: the
\* sequence of returned outcomes never grows again.
C11_NotRestartable ==
    [][ended => returned' = returned]_vars

\* Positions of a worker after it inserted its string into the visited set.
AfterInsert == {"Fetching", "Select", "Expanding", "Sending", "Finishing",
                "Publishing"}

\* C12: an outcome is published only by a worker that took the string off
\* the queue, inserted it into the visited set itself and got the outcome
\* from url_status; every outcome sent is for a string that was enqueued,
\* claimed, classified and is in the visited set.
C12_CausalOrder ==
    /\ [](/\ \A w \in Workers : pc[w] \in AfterInsert =>
                /\ current[w] \in visited
                /\ current[w] \in enqueued
                /\ claims[current[w]] >= 1
          /\ \A s \in Strings : Published(s) >= 1 =>
                /\ s \in enqueued
                /\ s \in visited
                /\ claims[s] >= 1
                /\ fetches[s] = 1)
    /\ [][\A w \in Workers : pc[w] = "Dedupe" /\ pc'[w] \in AfterInsert =>
            /\ current[w] \notin visited
            /\ visited' = visited \cup {current[w]}]_vars
    /\ [][Len(url_states') > Len(url_states) =>
            \E w \in Workers :
                /\ pc[w] = "Publishing"
                /\ state[w].tag # "none"
                /\ state[w].old = current[w]
                /\ fetches[current[w]] = 1
                /\ url_states' = Append(url_states, state[w])]_vars

\* a worker that found its string new has published its outcome while a
\* second entry carrying the same string is still on the queue
C12_Witness ==
    \E s \in Strings :
        /\ Published(s) = 1
        /\ \E i \in 1..Len(visit) : visit[i] = s

\* The window between try_recv (crawling.rs:57) and the increment
\* (crawling.rs:61): nothing queued, nothing counted, a worker holding a
\* claimed string it has not begun to process.
Window ==
    /\ visit = <<>>
    /\ active_count = 0
    /\ \E w \in Workers : pc[w] = "Claimed"

\* C13: in the window, a worker whose claim failed reads the counter and
\* exits, and a pull that found the outcome channel empty reads the counter
\* and ends the stream.
C13_WindowConcludesFinished ==
    /\ [][\A w \in Workers :
            (Window /\ pc[w] = "ClaimFailed" /\ pc'[w] # pc[w]) =>
                pc'[w] = "Exited"]_vars
    /\ [][(Window /\ cpc = "CheckCount" /\ cpc' # cpc) => cpc' = "Ended"]_vars

\* the window is open, another worker has already exited in it and the
\* stream has already ended in it: the seed is claimed, nothing is counted
\* and nothing was published
C13_Witness ==
    /\ Window
    /\ \E w \in Workers : pc[w] = "Exited"
    /\ cpc = "Ended"
    /\ returned = <<>>
    /\ url_states = <<>>
    /\ visited = {}

\* Workers between taking a string off the queue (crawling.rs:57) and being
\* done with it: outcome published (crawling.rs:98) or string dropped as
\* already visited (crawling.rs:72).
InFlightWorkers ==
    {w \in Workers : pc[w] \in {"Claimed", "Dedupe", "AlreadyVisited"} \cup AfterInsert}

\* C14: the in-flight counter equals the number of workers that hold a
\* string between claiming it and finishing it.
C14_CounterCountsHolders ==
    active_count = Cardinality(InFlightWorkers)

\* C15: a worker whose claimed string is already in the visited set takes
\* exactly one off the counter and is Idle again; the visited set, the
\* pending queue and the outcome channel stay as they were, and nothing is
\* fetched.
C15_AlreadyVisitedPath ==
    /\ [][\A w \in Workers :
            (pc[w] = "Dedupe" /\ current[w] \in visited /\ pc'[w] # pc[w]) =>
                /\ pc'[w] = "AlreadyVisited"
                /\ UNCHANGED <<visit, visited, active_count, url_states,
                               enqueued, fetches, requests>>]_vars
    /\ [][\A w \in Workers :
            (pc[w] = "AlreadyVisited" /\ pc'[w] # pc[w]) =>
                /\ pc'[w] = "Idle"
                /\ current'[w] = NoString
                /\ active_count' = active_count - 1
                /\ UNCHANGED <<visit, visited, url_states, enqueued, fetches,
                               requests>>]_vars

\* a worker has dropped the second entry of a string whose first entry is
\* still being handled by another worker, and the counter counts that other
\* worker only
C15_Witness ==
    \E s \in Strings : \E w \in Workers :
        /\ claims[s] = 2
        /\ pc[w] \in AfterInsert
        /\ current[w] = s
        /\ active_count = 1
        /\ \A v \in Workers \ {w} : pc[v] = "Idle"

\* Positions of a worker inside url_status (crawling.rs:79) or
\* fetch_all_urls (crawling.rs:85).
InNetworkIO == {"Fetching", "Select", "Expanding"}

\* C16: a worker inside url_status or fetch_all_urls holds neither the
\* mutex of the visited set nor the mutex of the counter.
C16_NoLockAcrossIO ==
    \A w \in Workers : pc[w] \in InNetworkIO =>
        (w \notin visited_lock /\ w \notin count_lock)

\* one worker waits for its response while another is inside the visited
\* critical section, holding that mutex
C16_Witness ==
    \E w \in Workers : \E v \in Workers \ {w} :
        /\ pc[w] = "Select"
        /\ v \in visited_lock
        /\ count_lock = {}

\* C17: after a failed claim a worker reads the counter; above 0 it goes back
\* to claiming, and it exits only from there on reading 0.  A pull that
\* found the outcome channel empty reads the counter; it ends the stream only
\* on reading 0 and pulls again otherwise.
C17_RetryOrExit ==
    /\ [][\A w \in Workers :
            /\ (pc[w] # "ClaimFailed" /\ pc'[w] = "ClaimFailed") =>
                   (pc[w] = "Idle" /\ visit = <<>>)
            /\ (pc[w] = "ClaimFailed" /\ pc'[w] # pc[w] /\ active_count > 0) =>
                   pc'[w] = "Idle"
            /\ (pc[w] # "Exited" /\ pc'[w] = "Exited") =>
                   (pc[w] = "ClaimFailed" /\ active_count = 0)]_vars
    /\ [][/\ (cpc # "CheckCount" /\ cpc' = "CheckCount") =>
                   (cpc = "TryRecv" /\ url_states = <<>>)
          /\ (cpc = "CheckCount" /\ cpc' # cpc /\ active_count > 0) =>
                   cpc' = "TryRecv"
          /\ (cpc # "Ended" /\ cpc' = "Ended") =>
                   (cpc = "CheckCount" /\ active_count = 0)]_vars

\* the stream has ended on reading 0, and a worker whose claim failed is
\* about to read a counter above 0
C17_Witness ==
    /\ cpc = "Ended"
    /\ active_count > 0
    /\ \E w \in Workers : pc[w] = "ClaimFailed"

\* The mutex a thread is about to lock, if it is about to lock one.
WantsVisited(t) == t \in Workers /\ pc[t] = "Dedupe"
WantsCount(t) ==
    \/ t \in Workers /\ pc[t] \in {"Claimed", "AlreadyVisited", "Finishing", "ClaimFailed"}
    \/ t = MainThread /\ cpc = "CheckCount"

\* A thread waiting for a mutex that some thread holds.
Blocked(t) ==
    \/ WantsVisited(t) /\ visited_lock # {}
    \/ WantsCount(t) /\ count_lock # {}

\* C18: no thread locks the visited set while holding the counter; the
\* visited mutex is held across another acquisition only on the
\* already-visited path; every thread that holds a mutex can go on to
\* release it, so the threads never all wait for each other.
C18_NoDeadlock ==
    /\ \A t \in count_lock : ~WantsVisited(t)
    /\ \A t \in visited_lock : t \in Workers /\ pc[t] = "AlreadyVisited"
    /\ \A t \in visited_lock \cup count_lock : ~Blocked(t)
    /\ Cardinality(visited_lock) <= 1
    /\ Cardinality(count_lock) <= 1

\* a worker holds the visited mutex and is about to lock the counter while
\* another worker waits for the visited mutex and the stream is about to
\* lock the counter
C18_Witness ==
    \E w \in Workers : \E v \in Workers \ {w} :
        /\ w \in visited_lock
        /\ WantsCount(w)
        /\ Blocked(v)
        /\ WantsCount(MainThread)

\* Positions of a worker thread that has terminated, by leaving its loop or
\* by a panic.
Gone == {"Exited", "Panicked", "AssertFailed", "PanickedInVisited"}

\* C19: while the pending queue is non-empty some worker thread is still
\* running to claim from it, and once every worker has left its loop the
\* queue is empty and the counter is 0.
C19_NoStrandedWork ==
    /\ visit # <<>> => \E w \in Workers : pc[w] \notin Gone
    /\ (\A w \in Workers : pc[w] = "Exited") => (visit = <<>> /\ active_count = 0)

\* The strings for which an outcome was sent on the outcome channel.
Sent == {s \in Strings : Published(s) >= 1}

\* C20: when every worker has left its loop, the strings with an outcome
\* sent are the visited set and are the strings ever enqueued, each with
\* exactly one outcome, whether returned to the caller or still in the
\* channel.
C20_WorkerSideComplete ==
    (\A w \in Workers : pc[w] = "Exited") =>
        /\ Sent = visited
        /\ visited = enqueued
        /\ \A s \in enqueued : Published(s) = 1
        /\ Len(returned) + Len(url_states) = Cardinality(enqueued)

\* every worker has left its loop after the whole site was crawled, and the
\* stream ended before the caller had received every outcome
C20_Witness ==
    /\ \A w \in Workers : pc[w] = "Exited"
    /\ {OffSite, Bad} \subseteq enqueued
    /\ url_states # <<>>
    /\ cpc = "Ended"

====
